---- MODULE Spec2Model ----
(***************************************************************************)
(* A model of scraper.py: the HTTP fetch layer (get_json over a session    *)
(* with a retry policy), the paginator get_all_pages, get_sections,        *)
(* get_jgp_codes, download_table and the per-year main loop with its       *)
(* export block.                                                           *)
(*                                                                         *)
(* Python values are modelled as follows.  A dict is a function whose      *)
(* domain is a set of strings, a list is a sequence.  A scalar that the    *)
(* code inspects dynamically (str(...), truthiness, None) is a tagged      *)
(* record: None, PyStr("7"), PyInt(7).  Polish names of the lookup tables  *)
(* are written without diacritics.                                         *)
(*                                                                         *)
(* The main loop of scraper.py (lines 180-259) has lost its indentation:   *)
(* two `for year` headers follow each other and the loop bodies from line  *)
(* 194 on stand at column 0.  The model reads it the only way its          *)
(* `continue` statements and its comments (lines 184, 191, 214, 233-235)   *)
(* allow: the year loop of line 181, the JGP-code loop inside it with      *)
(* lines 193-230 as its body, and the export block of lines 241-259 as     *)
(* the tail of the year loop's body.                                       *)
(***************************************************************************)
EXTENDS Integers, Sequences, FiniteSets, TLC

VARIABLES
    pc,           \* where the script is
    world,        \* which of the server's worlds the run meets
    crash,        \* "" or the stage whose uncaught exception ended the run
    faults,       \* faults the server may still inject
    lastFetch,    \* the last call of get_json: stage, what the transport gave, what it returned
    srvLast,      \* the server's number of pages of the sections endpoint
    last_page,    \* get_sections: last_page
    requested,    \* page numbers requested by the loop or generator now running, in order
    fetchLog,     \* what get_json gave for each of them
    yielded,      \* page numbers yielded by the generator now running, in order
    sections,     \* get_sections: sections
    si,           \* get_jgp_codes: index of the section being paginated
    page,         \* get_all_pages: page
    base_params,  \* get_all_pages: base_params
    jgp_codes,    \* get_jgp_codes: jgp_codes
    year,         \* main loop: year
    table_data,   \* main loop: table_data
    ci,           \* main loop: index of jgp_code in jgp_codes
    tables,       \* main loop: tables
    ti,           \* main loop: index of table in tables
    mi,           \* main loop: index of mode_name in param_modes
    rows,         \* download_table: rows
    calls,        \* every call of download_table so far: its arguments and its outcome
    files,        \* the output directory: path -> rows of the sheet
    exported,     \* the years whose export block has run, in order
    rowIn,        \* download_table, one row: the call's arguments and the source row
    rowOut        \* download_table, one row: the enriched row

vars == <<pc, world, crash, faults, lastFetch, srvLast, last_page, requested, fetchLog,
          yielded, sections, si, page, base_params, jgp_codes, year, table_data, ci,
          tables, ti, mi, rows, calls, files, exported, rowIn, rowOut>>

-----------------------------------------------------------------------------
(* Python values *)

None == [t |-> "none"]
PyStr(s) == [t |-> "str", v |-> s]
PyInt(n) == [t |-> "int", v |-> n]

\* the truth value Python gives a scalar in `if not x`
PyFalsy(x) ==
    \/ x.t = "none"
    \/ x.t = "str" /\ x.v = ""
    \/ x.t = "int" /\ x.v = 0

EmptyDict == [k \in {} |-> None]

\* d.get(k, default)
DictGet(d, k, default) == IF k \in DOMAIN d THEN d[k] ELSE default

\* d[k] = v
DictPut(d, k, v) == [x \in DOMAIN d \cup {k} |-> IF x = k THEN v ELSE d[x]]

DigitChars == <<"0", "1", "2", "3", "4", "5", "6", "7", "8", "9">>

RECURSIVE NatToStr(_)
\* str(n) of a non-negative int
NatToStr(n) == IF n < 10 THEN DigitChars[n + 1]
               ELSE NatToStr(n \div 10) \o DigitChars[(n % 10) + 1]

\* str(x) of a str or an int
StrOf(x) == IF x.t = "str" THEN x.v ELSE NatToStr(x.v)

\* zfill left out: the string is looked up as it stands
ZFillNothing(s, width) == s

RECURSIVE ZFill(_, _)
\* s.zfill(width) of a string without sign
ZFill(s, width) == IF Len(s) >= width THEN s ELSE ZFill("0" \o s, width)

-----------------------------------------------------------------------------
(* Lookup tables, lines 68-101 *)

voivodeships_map ==
    "01" :> "Dolnoslaski" @@ "02" :> "Kujawsko-Pomorski" @@ "03" :> "Lubelski" @@
    "04" :> "Lubuski" @@ "05" :> "Lodzki" @@ "06" :> "Malopolski" @@
    "07" :> "Mazowiecki" @@ "08" :> "Opolski" @@ "09" :> "Podkarpacki" @@
    "10" :> "Podlaski" @@ "11" :> "Pomorski" @@ "12" :> "Slaski" @@
    "13" :> "Swietokrzyski" @@ "14" :> "Warminsko-Mazurski" @@
    "15" :> "Wielkopolski" @@ "16" :> "Zachodniopomorski"

hospital_type_map ==
    "1" :> "Gminny, powiatowy, miejski" @@ "2" :> "Niepubliczny" @@
    "3" :> "Kliniczny" @@ "4" :> "Wojewodzki" @@ "5" :> "Inny"

endpoint_map ==
    "general-data" :> "basic-data" @@
    "hospitalization-by-gender" :> "hospitalizations-by-patient-gender" @@
    "hospitalization-by-admission" :> "hospitalizations-by-admission-type" @@
    "hospitalization-by-admission-nfz" :> "hospitalizations-by-admission-type-nfz-categorized" @@
    "hospitalization-by-discharge" :> "hospitalizations-by-discharge-type" @@
    "hospitalization-by-age" :> "hospitalizations-by-patient-age" @@
    "icd-9-procedures" :> "icd9-procedures" @@
    "icd-10-diseases" :> "icd10-diseases" @@
    "product-categories" :> "hospitalizations-by-product-category" @@
    "hospitalization-by-service" :> "hospitalizations-by-healthcare-service"

param_modes ==
    "default" :> EmptyDict @@
    "branch" :> [branch |-> "true"] @@
    "hospitalType" :> [hospitalType |-> "true"]

\* param_modes.keys(), in the order of the dict literal
ModeOrder == <<"default", "branch", "hospitalType">>

-----------------------------------------------------------------------------
(* The session and get_json, lines 12-48 *)

RetryTotal == 5
StatusForcelist == {429, 500, 502, 503, 504}

Response(code, body) == [kind |-> "response", code |-> code, body |-> body]
TransportError(name) == [kind |-> "exception", exc |-> name]

\* The transport failures the server and the network can produce for one attempt.
BadStatuses == {400, 404, 429, 500, 503}
TransportFaults ==
    {Response(c, EmptyDict) : c \in BadStatuses}
        \cup {TransportError("Timeout"), TransportError("ConnectionError")}

\* session.get under the mounted Retry: the first `persist` attempts meet `fault`,
\* the attempt after them meets `nominal`.  A status outside status_forcelist is
\* handed back at once; a status of the list and a transport error are retried
\* `total` times; when the budget is spent the last response is handed back
\* (raise_on_status=False) and a transport error is raised as a RequestException.
SessionGet(fault, persist, nominal) ==
    IF persist = 0 THEN nominal
    ELSE IF fault.kind = "response" /\ fault.code \notin StatusForcelist THEN fault
    ELSE IF persist <= RetryTotal THEN nominal
    ELSE fault

Returned(v) == [out |-> "return", val |-> v]
Raised(e) == [out |-> "raise", exc |-> e]
Json(body) == [t |-> "json", v |-> body]

\* get_json with every HTTP error swallowed
GetJsonSwallowsAll(got) ==
    IF got.kind = "exception" \/ got.code >= 400 THEN Returned(None)
    ELSE Returned(Json(got.body))

\* get_json with every HTTP error raised again
GetJsonRaisesAll(got) ==
    IF got.kind = "exception" THEN Returned(None)
    ELSE IF got.code >= 400 THEN Raised("HTTPError")
    ELSE Returned(Json(got.body))

\* get_json, given what session.get gave
GetJson(got) ==
    IF got.kind = "exception" THEN Returned(None)
    ELSE IF got.code >= 400
         THEN IF got.code = 400 THEN Returned(None) ELSE Raised("HTTPError")
         ELSE Returned(Json(got.body))

\* `not data` for what get_json returned: None, or an empty JSON object
NotData(val) == val.t = "none" \/ DOMAIN val.v = {}

-----------------------------------------------------------------------------
(* get_all_pages, lines 50-63 *)

\* The generator with `continue` in place of the first `break`: an absent page is skipped.
PagesTurnSkipsAbsent(pg, res) ==
    IF res.out = "raise"
    THEN [state |-> "raised", page |-> pg, yield |-> <<>>]
    ELSE IF NotData(res.val)
    THEN [state |-> "running", page |-> pg + 1, yield |-> <<>>]
    ELSE LET next_link == DictGet(DictGet(res.val.v, "links", EmptyDict), "next", None)
         IN  IF PyFalsy(next_link)
             THEN [state |-> "done", page |-> pg, yield |-> <<res.val.v>>]
             ELSE [state |-> "running", page |-> pg + 1, yield |-> <<res.val.v>>]

\* One turn of the generator's loop with `page` = pg, given what get_json did:
\* the pages it yields, whether the loop goes on, and the next value of `page`.
PagesTurn(pg, res) ==
    IF res.out = "raise"
    THEN [state |-> "raised", page |-> pg, yield |-> <<>>]
    ELSE IF NotData(res.val)
    THEN [state |-> "done", page |-> pg, yield |-> <<>>]
    ELSE LET next_link == DictGet(DictGet(res.val.v, "links", EmptyDict), "next", None)
         IN  IF PyFalsy(next_link)
             THEN [state |-> "done", page |-> pg, yield |-> <<res.val.v>>]
             ELSE [state |-> "running", page |-> pg + 1, yield |-> <<res.val.v>>]

-----------------------------------------------------------------------------
(* download_table, lines 139-163 *)

\* The enrichment with the hospital-type code padded like the branch code.
EnrichRowPadsBoth(row, mode_name, table_id, jgp_code, yr, name) ==
    LET r1 == IF mode_name = "branch" /\ "branch" \in DOMAIN row
              THEN DictPut(row, "branch_name",
                       LET k == ZFill(StrOf(row["branch"]), 2)
                       IN  IF k \in DOMAIN voivodeships_map
                           THEN PyStr(voivodeships_map[k]) ELSE row["branch"])
              ELSE row
        r2 == IF mode_name = "hospitalType" /\ "hospitalType" \in DOMAIN r1
              THEN DictPut(r1, "hospitalType_name",
                       LET k == ZFill(StrOf(r1["hospitalType"]), 2)
                       IN  IF k \in DOMAIN hospital_type_map
                           THEN PyStr(hospital_type_map[k]) ELSE r1["hospitalType"])
              ELSE r1
        r3 == DictPut(r2, "year", PyInt(yr))
        r4 == DictPut(r3, "jgp_code", PyStr(jgp_code))
        r5 == DictPut(r4, "name", name)
    IN  DictPut(r5, "table_id", PyInt(table_id))

\* the body of `for row in data_rows`, lines 154-161
EnrichRow(row, mode_name, table_id, jgp_code, yr, name) ==
    LET r1 == IF mode_name = "branch" /\ "branch" \in DOMAIN row
              THEN DictPut(row, "branch_name",
                       LET k == ZFill(StrOf(row["branch"]), 2)
                       IN  IF k \in DOMAIN voivodeships_map
                           THEN PyStr(voivodeships_map[k]) ELSE row["branch"])
              ELSE row
        r2 == IF mode_name = "hospitalType" /\ "hospitalType" \in DOMAIN r1
              THEN DictPut(r1, "hospitalType_name",
                       LET k == StrOf(r1["hospitalType"])
                       IN  IF k \in DOMAIN hospital_type_map
                           THEN PyStr(hospital_type_map[k]) ELSE r1["hospitalType"])
              ELSE r1
        r3 == DictPut(r2, "year", PyInt(yr))
        r4 == DictPut(r3, "jgp_code", PyStr(jgp_code))
        r5 == DictPut(r4, "name", name)
    IN  DictPut(r5, "table_id", PyInt(table_id))

-----------------------------------------------------------------------------
(* The server.  Its answers are the inputs of the script: a function of the  *)
(* request in each of two worlds.  World "full" exercises every branch of    *)
(* the traversal; world "e2e" is the end-to-end scenario of the              *)
(* specification (one section, one code, one general-data table, one row     *)
(* in default mode, no data in the other two modes).                         *)

Worlds == {"full", "e2e"}

RECURSIVE DigitSeq(_)
\* the decimal digits of n, one character each
DigitSeq(n) == IF n < 10 THEN <<DigitChars[n + 1]>>
               ELSE Append(DigitSeq(n \div 10), DigitChars[(n % 10) + 1])

\* A link to page n of the sections endpoint.  The code reads its characters, so
\* it is a sequence of one-character strings; it ends with the page number.
PageUrl(n) == <<"?", "p", "a", "g", "e", "=">> \o DigitSeq(n)

SectionsOn(w, p) ==
    IF p = 1 THEN (IF w = "e2e" THEN <<"A">> ELSE <<"A", "B">>)
    ELSE <<"S" \o NatToStr(p), "T" \o NatToStr(p)>>

SectionsBody(w, last, p) ==
    Response(200, [links |-> [last |-> PageUrl(last)], data |-> SectionsOn(w, p)])

HasNext == [next |-> PyStr("next")]
NullNext == [next |-> None]

BenefitsBody(w, section, pg) ==
    IF w = "e2e"
    THEN Response(200, [links |-> NullNext,
                        data |-> <<[attributes |-> [code |-> "5.51.01.0000001"]]>>])
    ELSE IF section = "A" /\ pg = 1
    THEN Response(200, [links |-> HasNext,
                        data |-> <<[attributes |-> [code |-> "J1"]], [id |-> "x"]>>])
    ELSE IF section = "A"
    THEN Response(200, [links |-> NullNext, data |-> <<[code |-> "J2"]>>])
    ELSE IF section = "B"
    THEN Response(200, [links |-> EmptyDict,
                        data |-> <<[attributes |-> [name |-> "n"]], [code |-> "J1"]>>])
    ELSE Response(200, [meta |-> "none"])

IndexBody(w, code, yr) ==
    IF w = "e2e"
    THEN Response(200, [data |-> [attributes |-> [years |->
             <<[tables |-> <<[id |-> 123, type |-> "general-data"]>>]>>]]])
    ELSE IF code = "J1"
    THEN Response(200, [data |-> [attributes |-> [years |->
             <<[tables |-> <<[id |-> 1, type |-> "general-data"],
                             [id |-> 2, type |-> "not-tracked"]>>]>>]]])
    ELSE IF yr = 2019 THEN Response(200, [meta |-> "none"])
    ELSE IF yr = 2020 THEN Response(200, [data |-> [attributes |-> [years |-> <<[year |-> 2020]>>]]])
    ELSE Response(200, [data |-> [attributes |-> [years |->
             <<[tables |-> <<[id |-> 3, type |-> "hospitalization-by-age"]>>]>>]]])

\* A str whose characters the export reads: a sequence of character codes.
PyText(chars) == [t |-> "text", v |-> chars]

TableName(id) == IF id = 3 THEN PyText(<<65, 11, 0, 66, 9, 31>>) ELSE PyText(<<66, 68>>)

TablePage(id, links, data_rows) ==
    Response(200, [links |-> links,
                   data |-> [attributes |-> [name |-> TableName(id), data |-> data_rows]]])

TableBody(w, id, mode_name, pg) ==
    IF w = "e2e"
    THEN IF mode_name = "default"
         THEN TablePage(id, NullNext, <<[value |-> PyInt(10)]>>)
         ELSE Response(400, EmptyDict)
    ELSE IF id = 1 /\ mode_name = "default"
    THEN TablePage(id, EmptyDict, <<[value |-> PyInt(10)]>>)
    ELSE IF id = 1 /\ mode_name = "branch" /\ pg = 1
    THEN TablePage(id, HasNext, <<[branch |-> PyStr("7"), value |-> PyInt(1)],
                                  [branch |-> PyInt(7), value |-> PyInt(2)]>>)
    ELSE IF id = 1 /\ mode_name = "branch"
    THEN TablePage(id, NullNext, <<[branch |-> PyStr("11"), value |-> PyInt(3)],
                                   [branch |-> PyStr("99"), value |-> PyInt(4)]>>)
    ELSE IF id = 1
    THEN TablePage(id, NullNext, <<[hospitalType |-> PyStr("2"), value |-> PyInt(5)],
                                   [hospitalType |-> PyInt(9), value |-> PyInt(6)],
                                   [value |-> PyInt(7)]>>)
    ELSE IF mode_name = "default"
    THEN Response(200, [links |-> NullNext, data |-> [attributes |-> [name |-> TableName(id)]]])
    ELSE IF mode_name = "branch"
    THEN Response(200, [links |-> NullNext])
    ELSE TablePage(id, NullNext, <<[hospitalType |-> PyStr("4"), value |-> PyInt(8)]>>)

\* What session.get can hand back for a request whose undisturbed answer is
\* `nominal`: that answer, an empty JSON object, or, while the fault budget
\* lasts, what the retry policy makes of a transport fault that persists for
\* 1, total or total + 1 attempts.
Gets(nominal, budget) ==
    {nominal} \cup
    (IF budget > 0
     THEN {Response(200, EmptyDict)} \cup
          {SessionGet(f, k, nominal) : f \in TransportFaults, k \in {1, RetryTotal, RetryTotal + 1}}
     ELSE {})

-----------------------------------------------------------------------------
(* The bookkeeping of a call of get_json: which stage called, what the      *)
(* transport gave, what get_json did.                                       *)

OutOf(res) == IF res.out = "raise" THEN "raise"
              ELSE IF res.val.t = "none" THEN "none"
              ELSE IF DOMAIN res.val.v = {} THEN "empty" ELSE "json"

NoFetch == [n |-> 0, stage |-> "", kind |-> "", code |-> 0, out |-> ""]

Fetched(stage, nominal, got) ==
    /\ lastFetch' = [n |-> lastFetch.n + 1, stage |-> stage, kind |-> got.kind,
                     code |-> IF got.kind = "response" THEN got.code ELSE 0,
                     out |-> OutOf(GetJson(got))]
    /\ faults' = IF got = nominal THEN faults ELSE faults - 1

Crashed(stage) == pc' = "crashed" /\ crash' = stage

-----------------------------------------------------------------------------
(* get_sections, lines 107-118 *)

\* int(first["links"]["last"][-1]), line 112
LastPageOf(first) ==
    LET url == first["links"]["last"]
        c == url[Len(url)]
    IN  IF \E d \in 0..9 : DigitChars[d + 1] = c
        THEN Returned(CHOOSE d \in 0..9 : DigitChars[d + 1] = c)
        ELSE Raised("ValueError")

\* lines 109-113
SectionsFirst ==
    /\ pc = "sections_first"
    /\ \E got \in Gets(SectionsBody(world, srvLast, 1), faults) :
         LET first == GetJson(got) IN
         /\ Fetched("sections", SectionsBody(world, srvLast, 1), got)
         /\ IF first.out = "raise"
            THEN Crashed("sections") /\ UNCHANGED <<last_page, sections, si, page>>
            ELSE IF NotData(first.val)
            THEN /\ pc' = "benefits"
                 /\ sections' = <<>>
                 /\ si' = 1 /\ page' = 1
                 /\ UNCHANGED <<crash, last_page>>
            ELSE IF LastPageOf(first.val.v).out = "raise"
            THEN Crashed("sections") /\ UNCHANGED <<last_page, sections, si, page>>
            ELSE /\ pc' = "sections_page"
                 /\ last_page' = LastPageOf(first.val.v).val
                 /\ sections' = <<>>
                 /\ UNCHANGED <<crash, si, page>>
    /\ requested' = <<>> /\ fetchLog' = <<>> /\ yielded' = <<>>
    /\ UNCHANGED <<world, base_params, srvLast, jgp_codes, year, table_data, ci, tables, ti, mi, rows,
                   calls, files, exported, rowIn, rowOut>>

\* one turn of `for p in range(1, last_page + 1)`, lines 114-117
SectionsPage ==
    /\ pc = "sections_page"
    /\ Len(requested) < last_page
    /\ LET p == Len(requested) + 1 IN
       \E got \in Gets(SectionsBody(world, srvLast, p), faults) :
         LET data == GetJson(got) IN
         /\ Fetched("sections", SectionsBody(world, srvLast, p), got)
         /\ requested' = Append(requested, p)
         /\ fetchLog' = Append(fetchLog, OutOf(data))
         /\ IF data.out = "raise"
            THEN Crashed("sections") /\ UNCHANGED sections
            ELSE /\ sections' = IF NotData(data.val) THEN sections
                                ELSE sections \o data.val.v["data"]
                 /\ UNCHANGED <<pc, crash>>
    /\ UNCHANGED <<world, base_params, srvLast, last_page, yielded, si, page, jgp_codes, year, table_data,
                   ci, tables, ti, mi, rows, calls, files, exported, rowIn, rowOut>>

\* the loop is over: `return sections`, line 118; get_jgp_codes starts, line 173
SectionsReturn ==
    /\ pc = "sections_page"
    /\ Len(requested) >= last_page
    /\ pc' = "benefits"
    /\ si' = 1 /\ page' = 1
    /\ UNCHANGED <<world, base_params, crash, faults, lastFetch, srvLast, last_page, requested, fetchLog,
                   yielded, sections, jgp_codes, year, table_data, ci, tables, ti, mi,
                   rows, calls, files, exported, rowIn, rowOut>>

-----------------------------------------------------------------------------
(* get_jgp_codes, lines 120-137 *)

RECURSIVE CodesOf(_)
\* the codes `for row in page.get("data", [])` appends, lines 132-136
CodesOf(data_rows) ==
    IF Len(data_rows) = 0 THEN <<>>
    ELSE LET row == Head(data_rows)
             c == IF "attributes" \in DOMAIN row /\ "code" \in DOMAIN row["attributes"]
                  THEN <<row["attributes"]["code"]>>
                  ELSE IF "code" \in DOMAIN row THEN <<row["code"]>> ELSE <<>>
         IN  c \o CodesOf(Tail(data_rows))

RECURSIVE PagesCodes(_)
\* the body of `for page in get_all_pages(...)` over the pages of one turn
PagesCodes(pages) ==
    IF Len(pages) = 0 THEN <<>>
    ELSE CodesOf(DictGet(Head(pages), "data", <<>>)) \o PagesCodes(Tail(pages))

\* one turn of the paginator for section sections[si], and the loop body on what it yields
BenefitsPage ==
    /\ pc = "benefits"
    /\ si <= Len(sections)
    /\ LET nominal == BenefitsBody(world, sections[si], page) IN
       \E got \in Gets(nominal, faults) :
         LET turn == PagesTurn(page, GetJson(got)) IN
         /\ Fetched("benefits", nominal, got)
         /\ IF turn.state = "raised"
            THEN Crashed("benefits") /\ UNCHANGED <<jgp_codes, si, page>>
            ELSE /\ jgp_codes' = jgp_codes \o PagesCodes(turn.yield)
                 /\ IF turn.state = "running"
                    THEN page' = turn.page /\ si' = si
                    ELSE page' = 1 /\ si' = si + 1
                 /\ UNCHANGED <<pc, crash>>
    /\ UNCHANGED <<world, base_params, srvLast, last_page, requested, fetchLog, yielded, sections, year,
                   table_data, ci, tables, ti, mi, rows, calls, files, exported,
                   rowIn, rowOut>>

\* the loop over the sections is over: `return jgp_codes`, line 137
BenefitsReturn ==
    /\ pc = "benefits"
    /\ si > Len(sections)
    /\ pc' = "year_loop"
    /\ UNCHANGED <<world, base_params, crash, faults, lastFetch, srvLast, last_page, requested, fetchLog,
                   yielded, sections, si, page, jgp_codes, year, table_data, ci, tables,
                   ti, mi, rows, calls, files, exported, rowIn, rowOut>>

-----------------------------------------------------------------------------
(* The main loop, lines 180-230 *)

YearStart == 2019
YearStop == 2022

\* endpoint_map.keys(), in the order of the dict literal
TableOrder ==
    <<"general-data", "hospitalization-by-gender", "hospitalization-by-admission",
      "hospitalization-by-admission-nfz", "hospitalization-by-discharge",
      "hospitalization-by-age", "icd-9-procedures", "icd-10-diseases",
      "product-categories", "hospitalization-by-service">>

\* the key of line 188
TableDataKey(table_name, mode_name) ==
    IF mode_name # "default" THEN table_name \o "_" \o mode_name ELSE table_name

\* the keys in the order lines 186-189 insert them
KeyOrder ==
    [n \in 1..(Len(TableOrder) * Len(ModeOrder)) |->
        TableDataKey(TableOrder[((n - 1) \div Len(ModeOrder)) + 1],
                     ModeOrder[((n - 1) % Len(ModeOrder)) + 1])]

\* table_data after lines 185-189
NewTableData == [k \in {KeyOrder[n] : n \in DOMAIN KeyOrder} |-> <<>>]

\* the key of line 225 with the mode always appended
DownloadKeyAlwaysSuffixed(table_name, mode_name) == table_name \o "_" \o mode_name

\* the key of line 225
DownloadKey(table_name, mode_name) ==
    IF mode_name # "default" THEN table_name \o "_" \o mode_name ELSE table_name

\* The year loop with table_data allocated once, before the first year only.
YearNextKeepsBuckets ==
    /\ pc = "year_loop"
    /\ LET next == IF year = 0 THEN YearStart ELSE year + 1 IN
       /\ next < YearStop
       /\ year' = next
    /\ table_data' = IF year = 0 THEN NewTableData ELSE table_data
    /\ ci' = 1
    /\ pc' = "index"
    /\ UNCHANGED <<world, base_params, crash, faults, lastFetch, srvLast, last_page,
                   requested, fetchLog, yielded, sections, si, page, jgp_codes, tables,
                   ti, mi, rows, calls, files, exported, rowIn, rowOut>>

\* `for year in range(2019, 2022)` takes its next value; lines 185-189 reset table_data
YearNext ==
    /\ pc = "year_loop"
    /\ LET next == IF year = 0 THEN YearStart ELSE year + 1 IN
       /\ next < YearStop
       /\ year' = next
    /\ table_data' = NewTableData
    /\ ci' = 1
    /\ pc' = "index"
    /\ UNCHANGED <<world, base_params, crash, faults, lastFetch, srvLast, last_page, requested, fetchLog,
                   yielded, sections, si, page, jgp_codes, tables, ti, mi, rows, calls,
                   files, exported, rowIn, rowOut>>

\* the range is exhausted: the script ends
RunDone ==
    /\ pc = "year_loop"
    /\ (IF year = 0 THEN YearStart ELSE year + 1) >= YearStop
    /\ pc' = "done"
    /\ UNCHANGED <<world, base_params, crash, faults, lastFetch, srvLast, last_page, requested, fetchLog,
                   yielded, sections, si, page, jgp_codes, year, table_data, ci, tables,
                   ti, mi, rows, calls, files, exported, rowIn, rowOut>>

\* lines 203-212: the tables of the index, or <<>> where the code says `continue`
IndexTables(table_index) ==
    IF "data" \notin DOMAIN table_index THEN <<>>
    ELSE IF "attributes" \notin DOMAIN table_index["data"] THEN <<>>
    ELSE LET years == DictGet(table_index["data"]["attributes"], "years", <<>>) IN
         IF Len(years) = 0 THEN <<>>
         ELSE DictGet(years[1], "tables", <<>>)

\* one turn of `for jgp_code in jgp_codes` up to the table loop, lines 192-212
IndexFetch ==
    /\ pc = "index"
    /\ ci <= Len(jgp_codes)
    /\ LET nominal == IndexBody(world, jgp_codes[ci], year) IN
       \E got \in Gets(nominal, faults) :
         LET table_index == GetJson(got) IN
         /\ Fetched("index", nominal, got)
         /\ IF table_index.out = "raise"
            THEN Crashed("index") /\ UNCHANGED <<ci, tables, ti, mi, page, rows>>
            ELSE IF NotData(table_index.val) \/ Len(IndexTables(table_index.val.v)) = 0
            THEN ci' = ci + 1 /\ UNCHANGED <<pc, crash, tables, ti, mi, page, rows>>
            ELSE /\ tables' = IndexTables(table_index.val.v)
                 /\ ti' = 1 /\ mi' = 1 /\ page' = 1 /\ rows' = <<>>
                 /\ pc' = "tables"
                 /\ UNCHANGED <<crash, ci>>
    /\ UNCHANGED <<world, base_params, srvLast, last_page, requested, fetchLog, yielded, sections, si,
                   jgp_codes, year, table_data, calls, files, exported, rowIn, rowOut>>

\* the loop over jgp_codes is over: the export block is next
CodesDone ==
    /\ pc = "index"
    /\ ci > Len(jgp_codes)
    /\ pc' = "export"
    /\ UNCHANGED <<world, base_params, crash, faults, lastFetch, srvLast, last_page, requested, fetchLog,
                   yielded, sections, si, page, jgp_codes, year, table_data, ci, tables,
                   ti, mi, rows, calls, files, exported, rowIn, rowOut>>

\* `if table_name not in endpoint_map: continue`, lines 219-220
TableSkip ==
    /\ pc = "tables"
    /\ ti <= Len(tables)
    /\ tables[ti]["type"] \notin DOMAIN endpoint_map
    /\ ti' = ti + 1
    /\ UNCHANGED <<pc, world, base_params, crash, faults, lastFetch, srvLast, last_page, requested,
                   fetchLog, yielded, sections, si, page, jgp_codes, year, table_data, ci,
                   tables, mi, rows, calls, files, exported, rowIn, rowOut>>

\* `for table in tables` is over: the next jgp_code
TablesDone ==
    /\ pc = "tables"
    /\ ti > Len(tables)
    /\ ci' = ci + 1
    /\ pc' = "index"
    /\ UNCHANGED <<world, base_params, crash, faults, lastFetch, srvLast, last_page, requested, fetchLog,
                   yielded, sections, si, page, jgp_codes, year, table_data, tables, ti,
                   mi, rows, calls, files, exported, rowIn, rowOut>>

\* A mode dropped out of the mode loop after a failed download.
AfterDownloadBreak(raised, m, t) ==
    IF raised \/ m >= Len(ModeOrder) THEN <<1, t + 1>> ELSE <<m + 1, t>>

\* Where `for mode_name in param_modes.keys()` stands after the call of download_table
\* for mode m of table t, returned or raised (`except Exception: continue`),
\* lines 224-230: <<mi, ti>>.
AfterDownload(raised, m, t) ==
    IF m < Len(ModeOrder) THEN <<m + 1, t>> ELSE <<1, t + 1>>

\* download_table's loop body on the pages one turn of the paginator yields, lines 149-162
PageRows(pages, mode_name, table_id, jgp_code, yr) ==
    IF Len(pages) = 0 THEN Returned(<<>>)
    ELSE IF "data" \notin DOMAIN pages[1] THEN Raised("KeyError")
    ELSE LET attributes == DictGet(pages[1]["data"], "attributes", EmptyDict)
             data_rows == DictGet(attributes, "data", <<>>)
         IN  Returned([i \in 1..Len(data_rows) |->
                 EnrichRow(data_rows[i], mode_name, table_id, jgp_code, yr,
                           DictGet(attributes, "name", None))])

\* the record of a call of download_table
Call(yr, c, t, table, mode_name, result, got_rows) ==
    [year |-> yr, ci |-> c, ti |-> t, table_id |-> table["id"], type |-> table["type"],
     mode |-> mode_name, result |-> result, rows |-> got_rows]

\* One turn of the paginator inside download_table(table_id, endpoint, mode_name,
\* jgp_code, year) and the loop body on what it yields; when the paginator stops,
\* line 228 extends the bucket; an exception is swallowed by lines 229-230.
DownloadPage ==
    /\ pc = "tables"
    /\ ti <= Len(tables)
    /\ tables[ti]["type"] \in DOMAIN endpoint_map
    /\ LET table == tables[ti]
           mode_name == ModeOrder[mi]
           key == DownloadKey(table["type"], mode_name)
           nominal == TableBody(world, table["id"], mode_name, page)
           before == IF page = 1 THEN calls ELSE SubSeq(calls, 1, Len(calls) - 1)
       IN
       \E got \in Gets(nominal, faults) :
         LET turn == PagesTurn(page, GetJson(got))
             got_rows == PageRows(turn.yield, mode_name, table["id"], jgp_codes[ci], year)
             raised == turn.state = "raised" \/ got_rows.out = "raise"
             all == IF raised THEN <<>> ELSE rows \o got_rows.val
         IN
         /\ Fetched("table", nominal, got)
         /\ IF ~raised /\ turn.state = "running"
            THEN /\ rows' = all
                 /\ page' = turn.page
                 /\ calls' = Append(before, Call(year, ci, ti, table, mode_name, "running", all))
                 /\ UNCHANGED <<table_data, ti, mi>>
            ELSE /\ rows' = <<>>
                 /\ page' = 1
                 /\ calls' = Append(before, Call(year, ci, ti, table, mode_name,
                                 IF raised THEN "raised"
                                 ELSE IF key \in DOMAIN table_data THEN "returned"
                                 ELSE "lost", all))
                 /\ table_data' = IF ~raised /\ key \in DOMAIN table_data
                                  THEN [table_data EXCEPT ![key] = @ \o all]
                                  ELSE table_data
                 /\ mi' = AfterDownload(raised, mi, ti)[1]
                 /\ ti' = AfterDownload(raised, mi, ti)[2]
    /\ UNCHANGED <<pc, world, base_params, crash, srvLast, last_page, requested, fetchLog, yielded,
                   sections, si, jgp_codes, year, ci, tables, files, exported, rowIn, rowOut>>

-----------------------------------------------------------------------------
(* The export block, lines 241-259, and clean_for_excel, lines 28-33 *)

ExcelCellLimit == 32767

\* the characters ILLEGAL_CHARACTERS_RE matches
IllegalCharacter(c) == c \in (0..8) \cup (11..12) \cup (14..31)

RECURSIVE StripIllegal(_)
StripIllegal(chars) ==
    IF Len(chars) = 0 THEN <<>>
    ELSE (IF IllegalCharacter(Head(chars)) THEN <<>> ELSE <<Head(chars)>>)
             \o StripIllegal(Tail(chars))

\* clean_for_excel.  Only a text carries characters the pattern can match: the
\* other strings of the model are written without control characters.
clean_for_excel(value) ==
    IF value.t = "text"
    THEN LET kept == StripIllegal(value.v)
         IN  PyText(SubSeq(kept, 1, IF Len(kept) < ExcelCellLimit THEN Len(kept)
                                    ELSE ExcelCellLimit))
    ELSE value

\* df.applymap(clean_for_excel) on the rows of one bucket
CleanRows(rs) == [i \in 1..Len(rs) |-> [c \in DOMAIN rs[i] |-> clean_for_excel(rs[i][c])]]

\* os.path.join(year_dir, f"{key}.xlsx"), lines 241-256
FilePath(yr, key) == "output_tables_complete/" \o NatToStr(yr) \o "/" \o key \o ".xlsx"

RECURSIVE WritesEveryBucket(_, _, _)
\* the export without `if not rows: continue`
WritesEveryBucket(keys, data, yr) ==
    IF Len(keys) = 0 THEN <<>>
    ELSE (IF Head(keys) \in DOMAIN data
          THEN <<[path |-> FilePath(yr, Head(keys)), rows |-> CleanRows(data[Head(keys)])]>>
          ELSE <<>>) \o WritesEveryBucket(Tail(keys), data, yr)

RECURSIVE Writes(_, _, _)
\* the files `for key, rows in table_data.items()` writes, in order
Writes(keys, data, yr) ==
    IF Len(keys) = 0 THEN <<>>
    ELSE (IF Head(keys) \in DOMAIN data /\ Len(data[Head(keys)]) > 0
          THEN <<[path |-> FilePath(yr, Head(keys)), rows |-> CleanRows(data[Head(keys)])]>>
          ELSE <<>>) \o Writes(Tail(keys), data, yr)

Export ==
    /\ pc = "export"
    /\ files' = files \o Writes(KeyOrder, table_data, year)
    /\ exported' = Append(exported, year)
    /\ pc' = "year_loop"
    /\ UNCHANGED <<world, base_params, crash, faults, lastFetch, srvLast, last_page, requested, fetchLog,
                   yielded, sections, si, page, jgp_codes, year, table_data, ci, tables,
                   ti, mi, rows, calls, rowIn, rowOut>>

-----------------------------------------------------------------------------
(* The run of the script *)

MaxFaults == 1
MaxRunLast == 2

NoRow == [row |-> EmptyDict, mode |-> "", table_id |-> 0, jgp_code |-> "", year |-> 0,
          name |-> None]

Init ==
    /\ pc = "sections_first"
    /\ world \in Worlds
    /\ srvLast \in (IF world = "e2e" THEN {1} ELSE 1..MaxRunLast)
    /\ faults = MaxFaults
    /\ crash = ""
    /\ lastFetch = NoFetch
    /\ last_page = 0
    /\ requested = <<>> /\ fetchLog = <<>> /\ yielded = <<>>
    /\ sections = <<>> /\ si = 1 /\ page = 1 /\ jgp_codes = <<>>
    /\ base_params = EmptyDict
    /\ year = 0 /\ table_data = EmptyDict
    /\ ci = 1 /\ tables = <<>> /\ ti = 1 /\ mi = 1 /\ rows = <<>>
    /\ calls = <<>> /\ files = <<>> /\ exported = <<>>
    /\ rowIn = NoRow /\ rowOut = EmptyDict

Next ==
    \/ SectionsFirst \/ SectionsPage \/ SectionsReturn
    \/ BenefitsPage \/ BenefitsReturn
    \/ YearNext \/ RunDone
    \/ IndexFetch \/ CodesDone
    \/ TableSkip \/ TablesDone \/ DownloadPage
    \/ Export

Spec == Init /\ [][Next]_vars

-----------------------------------------------------------------------------
(* get_sections alone: every announced last page up to MaxLast, every page   *)
(* free to fail.                                                             *)

MaxLast == 12

InitSections ==
    /\ pc = "sections_first"
    /\ world = "full"
    /\ srvLast \in 1..MaxLast
    /\ faults = MaxLast + 1
    /\ crash = ""
    /\ lastFetch = NoFetch
    /\ last_page = 0
    /\ requested = <<>> /\ fetchLog = <<>> /\ yielded = <<>>
    /\ sections = <<>> /\ si = 1 /\ page = 1 /\ jgp_codes = <<>>
    /\ base_params = EmptyDict
    /\ year = 0 /\ table_data = EmptyDict
    /\ ci = 1 /\ tables = <<>> /\ ti = 1 /\ mi = 1 /\ rows = <<>>
    /\ calls = <<>> /\ files = <<>> /\ exported = <<>>
    /\ rowIn = NoRow /\ rowOut = EmptyDict

NextSections == SectionsFirst \/ SectionsPage \/ SectionsReturn

SpecSections == InitSections /\ [][NextSections]_vars

-----------------------------------------------------------------------------
(* get_all_pages alone, consumed to its end as both of its callers do: every *)
(* sequence of answers of the server up to MaxPages pages.                   *)

MaxPages == 4

\* base_params of get_jgp_codes, lines 123-128
BenefitsParams(section) ==
    [section |-> section, catalog |-> "1a", limit |-> "25", format |-> "json"]

\* base_params of download_table, lines 141-146
TableParams(mode_name) ==
    LET fixed == ("limit" :> "25" @@ "format" :> "json" @@ "api-version" :> "1.1")
    IN  [k \in DOMAIN fixed \cup DOMAIN param_modes[mode_name] |->
            IF k \in DOMAIN param_modes[mode_name] THEN param_modes[mode_name][k]
            ELSE fixed[k]]

\* params = {**base_params, "page": page}, line 53
PageParams(params, pg) == DictPut(params, "page", pg)

\* The answers the server can give to the request for page pg: a page with or
\* without a next link (a data set of MaxPages pages has none on its last page),
\* a page without links, an empty JSON object.
PageAnswers(pg) ==
    {Response(200, [links |-> l, data |-> <<pg>>]) :
        l \in (IF pg < MaxPages THEN {HasNext} ELSE {})
                 \cup {NullNext, EmptyDict, [next |-> PyStr("")]}}
      \cup {Response(200, [data |-> <<pg>>]), Response(200, EmptyDict)}

\* what the answer `got` is, told from the answer alone
KindOf(got) ==
    IF got.kind = "exception" THEN "none"
    ELSE IF got.code = 400 THEN "none"
    ELSE IF got.code > 400 THEN "raise"
    ELSE IF DOMAIN got.body = {} THEN "empty"
    ELSE IF "links" \in DOMAIN got.body /\ got.body["links"] = HasNext THEN "next"
    ELSE "last"

InitPages ==
    /\ pc = "pages"
    /\ world = "full"
    /\ base_params \in {BenefitsParams(sec) : sec \in {"A", "B"}}
                          \cup {TableParams(ModeOrder[m]) : m \in DOMAIN ModeOrder}
                          \cup {[page |-> 7]}
    /\ page = 1
    /\ srvLast = 1
    /\ faults = 0
    /\ crash = ""
    /\ lastFetch = NoFetch
    /\ last_page = 0
    /\ requested = <<>> /\ fetchLog = <<>> /\ yielded = <<>>
    /\ sections = <<>> /\ si = 1 /\ jgp_codes = <<>>
    /\ year = 0 /\ table_data = EmptyDict
    /\ ci = 1 /\ tables = <<>> /\ ti = 1 /\ mi = 1 /\ rows = <<>>
    /\ calls = <<>> /\ files = <<>> /\ exported = <<>>
    /\ rowIn = NoRow /\ rowOut = EmptyDict

\* one turn of the generator, resumed by its consumer's `for`
PagesNext ==
    /\ pc = "pages"
    /\ \E nominal \in PageAnswers(page) :
       \E got \in {nominal} \cup {SessionGet(f, k, nominal) :
                      f \in TransportFaults, k \in {1, RetryTotal, RetryTotal + 1}} :
         LET turn == PagesTurn(page, GetJson(got)) IN
         /\ lastFetch' = [n |-> lastFetch.n + 1, stage |-> "pages", kind |-> got.kind,
                          code |-> IF got.kind = "response" THEN got.code ELSE 0,
                          out |-> OutOf(GetJson(got))]
         /\ requested' = Append(requested, PageParams(base_params, page))
         /\ fetchLog' = Append(fetchLog, KindOf(got))
         /\ yielded' = yielded \o turn.yield
         /\ page' = turn.page
         /\ pc' = IF turn.state = "running" THEN "pages"
                  ELSE IF turn.state = "done" THEN "pages_done" ELSE "pages_raised"
    /\ UNCHANGED <<world, base_params, srvLast, faults, crash, last_page, sections, si,
                   jgp_codes, year, table_data, ci, tables, ti, mi, rows, calls, files,
                   exported, rowIn, rowOut>>

NextPages == PagesNext

SpecPages == InitPages /\ [][NextPages]_vars

-----------------------------------------------------------------------------
(* The enrichment of one row by download_table: every source row over the    *)
(* columns value, branch and hospitalType, in every mode.                    *)

MaxBranchCode == 17
MaxHospitalCode == 6

\* the values a code column can carry: the number, its decimal string, the
\* string padded to two characters
CodeValues(max) ==
    {PyInt(n) : n \in 0..max} \cup {PyStr(NatToStr(n)) : n \in 0..max}
        \cup {PyStr(IF n < 10 THEN "0" \o NatToStr(n) ELSE NatToStr(n)) : n \in 0..max}

\* zero or one value of a column
Maybe(values) == {<<>>} \cup {<<x>> : x \in values}

SourceRow(value, branch, hospitalType) ==
    [c \in (IF Len(value) > 0 THEN {"value"} ELSE {})
             \cup (IF Len(branch) > 0 THEN {"branch"} ELSE {})
             \cup (IF Len(hospitalType) > 0 THEN {"hospitalType"} ELSE {}) |->
        IF c = "value" THEN value[1]
        ELSE IF c = "branch" THEN branch[1] ELSE hospitalType[1]]

InitRows ==
    /\ pc = "row"
    /\ \E value \in Maybe({PyInt(10)}), branch \in Maybe(CodeValues(MaxBranchCode)),
          hospitalType \in Maybe(CodeValues(MaxHospitalCode)),
          m \in DOMAIN ModeOrder, name \in {None, TableName(1)} :
         rowIn = [row |-> SourceRow(value, branch, hospitalType), mode |-> ModeOrder[m],
                  table_id |-> 123, jgp_code |-> "5.51.01.0000001", year |-> YearStart,
                  name |-> name]
    /\ rowOut = EmptyDict
    /\ world = "full"
    /\ base_params = EmptyDict
    /\ page = 1
    /\ srvLast = 1
    /\ faults = 0
    /\ crash = ""
    /\ lastFetch = NoFetch
    /\ last_page = 0
    /\ requested = <<>> /\ fetchLog = <<>> /\ yielded = <<>>
    /\ sections = <<>> /\ si = 1 /\ jgp_codes = <<>>
    /\ year = 0 /\ table_data = EmptyDict
    /\ ci = 1 /\ tables = <<>> /\ ti = 1 /\ mi = 1 /\ rows = <<>>
    /\ calls = <<>> /\ files = <<>> /\ exported = <<>>

\* lines 154-162 on one row
Enrich ==
    /\ pc = "row"
    /\ rowOut' = EnrichRow(rowIn.row, rowIn.mode, rowIn.table_id, rowIn.jgp_code,
                           rowIn.year, rowIn.name)
    /\ pc' = "row_done"
    /\ UNCHANGED <<world, base_params, crash, faults, lastFetch, srvLast, last_page,
                   requested, fetchLog, yielded, sections, si, page, jgp_codes, year,
                   table_data, ci, tables, ti, mi, rows, calls, files, exported, rowIn>>

NextRows == Enrich

SpecRows == InitRows /\ [][NextRows]_vars

-----------------------------------------------------------------------------
(* Claims about get_json and its callers, checked under Spec *)

\* the last call of get_json met a transport failure other than HTTP 400
OtherFailure ==
    /\ lastFetch.n > 0
    /\ \/ lastFetch.kind = "exception"
       \/ lastFetch.kind = "response" /\ lastFetch.code > 400

\* C1 as stated: on every transport failure other than HTTP 400 (a timeout, a
\* connection error, an HTTP error status such as 404 or a 5xx left after the
\* retries) get_json returns None, raises nothing, and the run is not ended, in
\* whichever stage the call was made.
C1_AbsentOnEveryFailure ==
    OtherFailure => lastFetch.out = "none" /\ pc # "crashed"

\* C1 amended: on a timeout or a connection error get_json returns None and the
\* run goes on; on an HTTP error status other than 400 it raises the HTTPError
\* again, which ends the run in the sections, JGP-codes and index-of-tables
\* stages and is swallowed only in the table-download stage.
C1_AbsentOnTransportErrorRaisedOnStatus ==
    /\ lastFetch.n > 0 /\ lastFetch.kind = "exception"
          => lastFetch.out = "none" /\ pc # "crashed"
    /\ lastFetch.n > 0 /\ lastFetch.kind = "response" /\ lastFetch.code > 400
          => /\ lastFetch.out = "raise"
             /\ lastFetch.stage \in {"sections", "benefits", "index"}
                   => pc = "crashed" /\ crash = lastFetch.stage
             /\ lastFetch.stage = "table" => pc # "crashed"

\* a run that ended normally although its last fetch timed out or lost its connection
C1_Witness ==
    /\ pc = "done"
    /\ lastFetch.kind = "exception"
    /\ lastFetch.out = "none"

\* C2: on HTTP 400 get_json returns None without raising and the caller goes on
\* with its next unit of work: get_sections returns no sections or takes its next
\* page, the pagination of a section ends and the next section is taken, the
\* main loop takes the next JGP code, and a table download ends with the rows it
\* has and the next mode is taken.
C2_ClientErrorIsAbsent ==
    [][lastFetch'.n # lastFetch.n /\ lastFetch'.kind = "response" /\ lastFetch'.code = 400
          => /\ lastFetch'.out = "none"
             /\ pc' # "crashed" /\ crash' = ""
             /\ pc = "sections_first" => pc' = "benefits" /\ sections' = <<>>
             /\ pc = "sections_page"
                   => /\ pc' = "sections_page"
                      /\ sections' = sections
                      /\ requested' = Append(requested, Len(requested) + 1)
             /\ pc = "benefits"
                   => pc' = "benefits" /\ si' = si + 1 /\ page' = 1 /\ jgp_codes' = jgp_codes
             /\ pc = "index" => pc' = "index" /\ ci' = ci + 1
             /\ pc = "tables"
                   => /\ pc' = "tables"
                      /\ <<ti', mi'>> \in {<<ti, mi + 1>>, <<ti + 1, 1>>}
                      /\ table_data' = [table_data EXCEPT
                             ![IF mi = 1 THEN tables[ti]["type"]
                               ELSE tables[ti]["type"] \o "_" \o ModeOrder[mi]] = @ \o rows]
      ]_vars

\* the index-of-tables lookup of the first JGP code met a 400 and the loop stands at the second
C2_Witness ==
    /\ lastFetch.kind = "response" /\ lastFetch.code = 400
    /\ lastFetch.stage = "index"
    /\ pc = "index" /\ ci = 2

-----------------------------------------------------------------------------
(* Claims about get_all_pages, checked under SpecPages *)

\* the generator has stopped
PagesStopped == pc \in {"pages_done", "pages_raised"}

\* the number of entries of log that are among kinds
RECURSIVE CountOf(_, _)
CountOf(log, kinds) ==
    IF Len(log) = 0 THEN 0
    ELSE (IF Head(log) \in kinds THEN 1 ELSE 0) + CountOf(Tail(log), kinds)

\* the page numbers whose answers are among kinds, in order
PagesOfKind(log, kinds) ==
    SelectSeq([i \in 1..Len(log) |-> i], LAMBDA i : log[i] \in kinds)

\* pages 1, 2, 3, ... were requested, in this order, each with the base parameters
AscendingRequests ==
    \A i \in 1..Len(requested) :
        /\ requested[i]["page"] = i
        /\ \A k \in DOMAIN base_params \ {"page"} :
              k \in DOMAIN requested[i] /\ requested[i][k] = base_params[k]

\* C3 as stated: pages are requested in the order 1, 2, 3, ..., every fetched page
\* is yielded in that order, and the generator stops exactly at the first fetch
\* that returns absent or the first yielded page without links.next, so that as
\* many pages are yielded as were successfully fetched.
C3_StopsAtAbsentOrLastPage ==
    /\ AscendingRequests
    /\ \A i \in 1..(Len(fetchLog) - 1) : fetchLog[i] = "next"
    /\ PagesStopped => fetchLog[Len(fetchLog)] \in {"none", "last"}
    /\ Len(yielded) = CountOf(fetchLog, {"next", "last", "empty"})

\* C3 amended: pages are requested in the order 1, 2, 3, ... without repetition;
\* every page whose fetch returned a non-empty JSON object is yielded, in that
\* order, and nothing else; the generator goes on exactly while the yielded page
\* has a links.next, ends at the first fetch that returns None or an empty JSON
\* object (nothing is yielded for it) or at the first yielded page without
\* links.next, and is ended by the HTTPError of the first fetch that raises.
C3_StopsAtFalsyRaiseOrLastPage ==
    /\ AscendingRequests
    /\ Len(fetchLog) = Len(requested)
    /\ \A i \in 1..(Len(fetchLog) - 1) : fetchLog[i] = "next"
    /\ pc = "pages" => page = Len(requested) + 1
                       /\ \A i \in 1..Len(fetchLog) : fetchLog[i] = "next"
    /\ pc = "pages_done" => fetchLog[Len(fetchLog)] \in {"none", "empty", "last"}
    /\ pc = "pages_raised" => fetchLog[Len(fetchLog)] = "raise"
    /\ [i \in 1..Len(yielded) |-> yielded[i]["data"]]
          = [i \in 1..Len(PagesOfKind(fetchLog, {"next", "last"})) |->
                <<PagesOfKind(fetchLog, {"next", "last"})[i]>>]

\* three pages were yielded and the fetch of the fourth returned None
C3_Witness ==
    /\ pc = "pages_done"
    /\ Len(yielded) = 3
    /\ fetchLog = <<"next", "next", "next", "none">>

-----------------------------------------------------------------------------
(* Claims about get_sections, checked under SpecSections *)

\* get_sections has returned after a first fetch that gave a page
SectionsLoopDone ==
    /\ pc = "benefits"
    /\ lastFetch.n > 1 \/ lastFetch.out = "json"

RECURSIVE PresentSections(_, _)
\* the data arrays of the pages 1..Len(log) whose fetch gave a page, concatenated
PresentSections(w, log) ==
    IF Len(log) = 0 THEN <<>>
    ELSE PresentSections(w, SubSeq(log, 1, Len(log) - 1))
            \o (IF log[Len(log)] = "json" THEN SectionsOn(w, Len(log)) ELSE <<>>)

\* C8: for every last page number L >= 1 announced by links.last of page 1
\* (L >= 10 included), get_sections fetches every page 1..L exactly once in
\* ascending order and returns the concatenation, in page order, of the data
\* arrays of the pages that were not absent.
C8_FetchesEveryAnnouncedPage ==
    SectionsLoopDone =>
        /\ requested = [i \in 1..srvLast |-> i]
        /\ sections = PresentSections(world, fetchLog)

\* The same with the pages the code takes for announced: 1..(the last decimal
\* digit of L).  It holds, so the loop and the concatenation are as claimed and
\* only line 112 departs from the claim.
SectionsFetchesLastDigitPages ==
    /\ pc \in {"sections_page", "benefits"} =>
          /\ Len(requested) <= last_page
          /\ \A i \in 1..Len(requested) : requested[i] = i
          /\ pc = "sections_page" => sections = PresentSections(world, fetchLog)
    /\ SectionsLoopDone =>
          /\ last_page = srvLast % 10
          /\ requested = [i \in 1..last_page |-> i]
          /\ sections = PresentSections(world, fetchLog)

-----------------------------------------------------------------------------
(* Claims about the rows download_table returns, checked under SpecRows *)

\* C6 as stated: in mode "branch" a source row whose branch is "7" or 7 gets
\* branch_name "Pomorski".
C6_BranchSevenIsPomorski ==
    pc = "row_done" /\ rowIn.mode = "branch" /\ "branch" \in DOMAIN rowIn.row
                    /\ rowIn.row["branch"] \in {PyStr("7"), PyInt(7)}
        => "branch_name" \in DOMAIN rowOut /\ rowOut["branch_name"] = PyStr("Pomorski")

\* C6 amended: in mode "branch" a source row whose branch is "7" or 7 gets
\* branch_name "Mazowiecki", the entry of voivodeships_map for the padded code
\* "07"; "Pomorski" is the name of the rows whose branch is "11" or 11.
C6_BranchSevenIsMazowiecki ==
    pc = "row_done" /\ rowIn.mode = "branch" /\ "branch" \in DOMAIN rowIn.row
        => /\ "branch_name" \in DOMAIN rowOut
           /\ rowIn.row["branch"] \in {PyStr("7"), PyInt(7), PyStr("07")}
                 => rowOut["branch_name"] = PyStr("Mazowiecki")
           /\ rowIn.row["branch"] \in {PyStr("11"), PyInt(11)}
                 => rowOut["branch_name"] = PyStr("Pomorski")

\* a row of mode "branch" whose source branch is the string "7" has been enriched
C6_Witness ==
    /\ pc = "row_done"
    /\ rowIn.mode = "branch"
    /\ "branch" \in DOMAIN rowIn.row /\ rowIn.row["branch"] = PyStr("7")
    /\ "branch_name" \in DOMAIN rowOut

\* C10: branch_name is there exactly when the mode is "branch" and the source
\* row has a branch; hospitalType_name is there exactly when the mode is
\* "hospitalType" and the source row has a hospitalType, and it is the entry of
\* hospital_type_map for the code as it stands ("2" gives "Niepubliczny") or the
\* raw value when there is none; year, jgp_code, name and table_id are always
\* there with the call's arguments and the page's display name; the other
\* columns are those of the source row.
C10_EnrichmentColumns ==
    pc = "row_done" =>
        /\ "branch_name" \in DOMAIN rowOut
              <=> rowIn.mode = "branch" /\ "branch" \in DOMAIN rowIn.row
        /\ "hospitalType_name" \in DOMAIN rowOut
              <=> rowIn.mode = "hospitalType" /\ "hospitalType" \in DOMAIN rowIn.row
        /\ "hospitalType_name" \in DOMAIN rowOut =>
              LET raw == rowIn.row["hospitalType"] IN
              /\ raw \in {PyStr("2"), PyInt(2)} => rowOut["hospitalType_name"] = PyStr("Niepubliczny")
              /\ \A n \in 1..5 : raw \in {PyStr(NatToStr(n)), PyInt(n)}
                    => rowOut["hospitalType_name"] = PyStr(hospital_type_map[NatToStr(n)])
              /\ (\A n \in 1..5 : raw \notin {PyStr(NatToStr(n)), PyInt(n)})
                    => rowOut["hospitalType_name"] = raw
        /\ {"year", "jgp_code", "name", "table_id"} \subseteq DOMAIN rowOut
        /\ rowOut["year"] = PyInt(rowIn.year)
        /\ rowOut["jgp_code"] = PyStr(rowIn.jgp_code)
        /\ rowOut["name"] = rowIn.name
        /\ rowOut["table_id"] = PyInt(rowIn.table_id)
        /\ \A c \in DOMAIN rowIn.row : c \in DOMAIN rowOut /\ rowOut[c] = rowIn.row[c]
        /\ DOMAIN rowOut \subseteq DOMAIN rowIn.row
              \cup {"year", "jgp_code", "name", "table_id", "branch_name", "hospitalType_name"}

\* a row of mode "hospitalType" whose code "02" has no entry keeps the raw value as its name
C10_Witness ==
    /\ pc = "row_done"
    /\ rowIn.mode = "hospitalType"
    /\ "hospitalType" \in DOMAIN rowIn.row /\ rowIn.row["hospitalType"] = PyStr("02")
    /\ "branch" \in DOMAIN rowIn.row
    /\ rowOut["hospitalType_name"] = PyStr("02")

-----------------------------------------------------------------------------
(* Claims about the per-year traversal and the export, checked under Spec *)

\* the bucket key of table type t and mode m, as the specification writes it
BucketKeyOf(t, m) == IF m = "default" THEN t ELSE t \o "_" \o m

BucketKeys == [t \in DOMAIN endpoint_map |-> [m \in DOMAIN param_modes |-> BucketKeyOf(t, m)]]

AllBucketKeys == {BucketKeys[t][m] : t \in DOMAIN endpoint_map, m \in DOMAIN param_modes}

\* the calls of download_table made for code c of year yr, as <<table, mode>>, in order
CallsFor(yr, c) ==
    LET mine == SelectSeq(calls, LAMBDA x : x.year = yr /\ x.ci = c)
    IN  [i \in 1..Len(mine) |-> <<mine[i].ti, mine[i].mode>>]

RECURSIVE CallsDue(_, _, _, _)
\* the calls due before the mode loop stands at mode m of table t (that one
\* included when begun tells that its first page has been fetched)
CallsDue(tabs, t, m, begun) ==
    IF t = 0 THEN <<>>
    ELSE CallsDue(tabs, t - 1, Len(ModeOrder) + 1, FALSE)
            \o (IF t <= Len(tabs) /\ tabs[t]["type"] \in DOMAIN endpoint_map
                THEN [i \in 1..(IF begun THEN m ELSE m - 1) |-> <<t, ModeOrder[i]>>]
                ELSE <<>>)

\* the calls of download_table whose mode loop position has been left: all of
\* them, but those of the code whose tables are being walked
CallsPast ==
    IF pc = "tables" THEN SubSeq(calls, 1, Len(calls) - Len(CallsFor(year, ci))) ELSE calls

CallKey(x) == <<x.year, x.ci, x.ti, x.mode>>

RECURSIVE RowsReturned(_, _, _, _)
\* the rows the first n calls of download_table returned for type t and mode m of year yr
RowsReturned(n, yr, t, m) ==
    IF n = 0 THEN <<>>
    ELSE RowsReturned(n - 1, yr, t, m)
            \o (IF calls[n].year = yr /\ calls[n].type = t /\ calls[n].mode = m
                   /\ calls[n].result # "running"
                THEN calls[n].rows ELSE <<>>)

\* C5: from the start of a year's traversal on, the keys of table_data are the
\* 30 keys {type, or type_mode : type in endpoint_map, mode in param_modes},
\* whatever was fetched; the bucket of (t, m) holds exactly the rows the calls
\* of download_table for (t, m) returned this year, in order, so no append
\* meets a missing key or another bucket.
C5_BucketsAreFixedAndExact ==
    year # 0 =>
        /\ DOMAIN table_data = AllBucketKeys
        /\ Cardinality(DOMAIN table_data) = 30
        /\ \A i \in DOMAIN calls : calls[i].result # "lost"
        /\ LET called == {calls[i].type : i \in DOMAIN calls} IN
           \A t \in DOMAIN endpoint_map, m \in DOMAIN param_modes :
              table_data[BucketKeys[t][m]] =
                  IF t \in called THEN RowsReturned(Len(calls), year, t, m) ELSE <<>>

\* buckets of two types and of the three modes hold rows
C5_Witness ==
    /\ year # 0
    /\ Len(table_data["general-data"]) > 0
    /\ Len(table_data["general-data_branch"]) > 2
    /\ Len(table_data["hospitalization-by-age_hospitalType"]) > 0

\* the path of the file of bucket k of year yr, as the specification writes it
PathOf(yr, k) == "output_tables_complete/" \o NatToStr(yr) \o "/" \o k \o ".xlsx"

\* the paths of the files of each year of the loop
YearPaths ==
    [y \in YearStart..(YearStop - 1) |-> {PathOf(y, k) : k \in AllBucketKeys}]

\* the writes of files under path p
WritesTo(p) == SelectSeq(files, LAMBDA f : f.path = p)

\* sheet holds the rows of bucket: as many, with the same columns, and the same
\* value in every cell that is not a text
SameRows(sheet, bucket) ==
    /\ Len(sheet) = Len(bucket)
    /\ \A i \in 1..Len(bucket) :
          /\ DOMAIN sheet[i] = DOMAIN bucket[i]
          /\ \A c \in DOMAIN bucket[i] :
                bucket[i][c].t # "text" => sheet[i][c] = bucket[i][c]

====
